---- MODULE Spec2Model ----
(***************************************************************************)
(* A model of sort-Xcode-project-file.py: the line scanner and rewrite     *)
(* engine (sort_project_file), the natural sort key, the entry classifier, *)
(* the deduplicator (uniq) and the atomic writer (write_file).             *)
(*                                                                         *)
(* File content and lines are strings, as in the program.  A name that is  *)
(* handed to the sort key is a sequence of Unicode code points, which is   *)
(* what a Python str is; CodePoints converts.                              *)
(***************************************************************************)
EXTENDS Integers, Sequences, FiniteSets, TLC

VARIABLES
    target,            \* the file at the target path: [exists, data]
    tmp,               \* the temporary sibling made by mkstemp: [exists, data]
    pc,                \* where the call of sort_project_file stands
    case_insensitive,  \* argument of sort_project_file
    check_only,        \* argument of sort_project_file
    content,           \* local of sort_project_file (line 227)
    lines,             \* local of sort_project_file (line 228)
    output,            \* local of sort_project_file (line 230)
    i,                 \* local of sort_project_file (line 231), 1-based here
    sorted_content,    \* local of sort_project_file (line 292)
    ret,               \* what the call gave back: a return value or an exception
    run,               \* number of the current invocation on this path
    regions,           \* history: the regions the scanner has consumed
    previous,          \* history: the content the previous invocation produced
    unlink_error,      \* write_file: the OSError of os.unlink was caught (line 215)
    observed,          \* what a concurrent reader of the target path got
    original,          \* history: the target file when this invocation began
    failed,            \* write_file: the call of it that raised
    target_stat,       \* os.stat of the target path: [mode, uid]
    tmp_stat,          \* os.stat of the temporary file: [mode, uid]
    items,             \* a call of uniq: its argument
    result,            \* a call of uniq: what it returned
    upc,               \* a call of uniq: where it stands
    name_a,            \* two calls of natural_sort_key: the first argument s
    name_b,            \* two calls of natural_sort_key: the second argument s
    key_a,             \* natural_sort_key(name_a, case_insensitive)
    key_b,             \* natural_sort_key(name_b, case_insensitive)
    kpc,               \* two calls of natural_sort_key: where they stand
    is_dir,            \* is_directory(name_a, case_insensitive), once called
    args,              \* main: the parsed options check and case_insensitive
    files,             \* main: args.files, each with what its path held at first
    disk,              \* main: what the path of each of args.files holds now
    file_index,        \* main: the position of the loop in args.files
    all_sorted,        \* main: no call has returned False so far
    exit_status,       \* the status the process exits with, once mpc = "exited"
    mpc                \* main: where it stands

vars == << target, tmp, pc, case_insensitive, check_only, content, lines, output,
           i, sorted_content, ret, run, regions, previous, unlink_error,
           observed, original, failed, target_stat, tmp_stat, items, result, upc,
           name_a, name_b, key_a, key_b, kpc, is_dir, args, files, file_index,
           all_sorted, exit_status, mpc, disk >>

engine_vars == << target, tmp, pc, case_insensitive, check_only, content, lines,
                  output, i, sorted_content, ret, run, regions, previous,
                  unlink_error, observed, original, failed, target_stat,
                  tmp_stat >>

uniq_vars == << items, result, upc >>

key_vars == << name_a, name_b, key_a, key_b, kpc, is_dir >>

main_vars == << args, files, disk, file_index, all_sorted, exit_status, mpc >>

helper_vars == << uniq_vars, key_vars, main_vars >>

-----------------------------------------------------------------------------
(* Bounds of the model.                                                    *)

\* Most lines of a project file.
MaxLines == 4

\* Most invocations of the tool on one file.
MaxRuns == 2

\* Most items of a list handed to uniq.
MaxItems == 4

\* Most characters of a name handed to natural_sort_key.
MaxName == 3

\* The longest list of files handed to main.
MaxFiles == 2

\* The longest body of the one array of SpecFiles and of SpecTies.
MaxBody == 3

-----------------------------------------------------------------------------
(* Strings and characters.                                                 *)

Char(s, k) == SubSeq(s, k, k)

Min(S) == CHOOSE x \in S : \A y \in S : x <= y

Max(S) == CHOOSE x \in S : \A y \in S : x >= y

\* The ASCII characters U+0023 .. U+005F in code point order.
PrintableLow ==
    "#$%&'()*+,-./0123456789:;<=>?@ABCDEFGHIJKLMNOPQRSTUVWXYZ[\\]^_"

\* The ASCII characters U+0061 .. U+007E in code point order.
PrintableHigh == "abcdefghijklmnopqrstuvwxyz{|}~"

\* ord(c) of a character of the model.
Ord(c) ==
    IF c = "\t" THEN 9
    ELSE IF c = "\n" THEN 10
    ELSE IF c = "\r" THEN 13
    ELSE IF c = " " THEN 32
    ELSE IF c = "!" THEN 33
    ELSE IF \E k \in 1..Len(PrintableLow) : Char(PrintableLow, k) = c
         THEN 34 + (CHOOSE k \in 1..Len(PrintableLow) : Char(PrintableLow, k) = c)
         ELSE 96 + (CHOOSE k \in 1..Len(PrintableHigh) : Char(PrintableHigh, k) = c)

\* A str as the sequence of its code points.
CodePoints(s) == [k \in 1..Len(s) |-> Ord(Char(s, k))]

\* The regex class \s on the characters of the model.
IsSpace(c) == c \in {" ", "\t", "\r", "\n"}

\* The regex class [A-Fa-f0-9].
IsHex(c) == c \in {"0", "1", "2", "3", "4", "5", "6", "7", "8", "9",
                   "A", "B", "C", "D", "E", "F", "a", "b", "c", "d", "e", "f"}

\* Index of the first character at or after k that \s does not match
\* (Len(s) + 1 when there is none): where a greedy \s* or \s+ stops.
SkipSpace(s, k) ==
    LET rest == {j \in k..Len(s) : ~IsSpace(Char(s, j))}
    IN  IF rest = {} THEN Len(s) + 1 ELSE Min(rest)

\* The literal lit stands in s at index k.
LitAt(s, k, lit) ==
    /\ k >= 1
    /\ k + Len(lit) - 1 <= Len(s)
    /\ SubSeq(s, k, k + Len(lit) - 1) = lit

\* The substring test of Python, sub in s.
Contains(s, sub) == \E k \in 1..(Len(s) - Len(sub) + 1) : LitAt(s, k, sub)

-----------------------------------------------------------------------------
(* The compiled patterns (lines 56-100).  A line never holds a newline     *)
(* (it comes from content.split), so $ is the end of the line.  A greedy   *)
(* \s* or \s+ in front of a character that is no space never gives back.   *)

\* What a failed match gives.
NoMatch == [matched |-> FALSE, indent |-> "", name |-> ""]

\* The end of both header patterns, the parenthesis expected at p:  \( \s* $
HeaderParen(line, p) ==
    LitAt(line, p, "(") /\ SkipSpace(line, p + 1) = Len(line) + 1

\* The equals sign expected at e, and what follows:  = \s* \( \s* $
HeaderEquals(line, e) ==
    LitAt(line, e, "=") /\ HeaderParen(line, SkipSpace(line, e + 1))

\* The tail shared by both header patterns, from index k:  \s* = \s* \( \s* $
HeaderTail(line, k) == HeaderEquals(line, SkipSpace(line, k))

\* REGEX_FILES_ARRAY with the indent (\s*) ending before index k.
FilesArrayAt(line, k) ==
    IF LitAt(line, k, "files") /\ HeaderTail(line, k + 5)
    THEN [matched |-> TRUE, indent |-> SubSeq(line, 1, k - 1), name |-> "files"]
    ELSE NoMatch

\* REGEX_FILES_ARRAY.match(line); indent is group(1).
REGEX_FILES_ARRAY(line) == FilesArrayAt(line, SkipSpace(line, 1))

\* The alternation of REGEX_ARRAY_START, in its order.
ArrayNames == << "children", "buildConfigurations", "targets",
                 "packageProductDependencies", "packageReferences" >>

\* REGEX_ARRAY_START with the indent ending before index k and alts the
\* alternatives that match there.
ArrayStartAt(line, k, alts) ==
    IF alts # {}
    THEN [matched |-> TRUE, indent |-> SubSeq(line, 1, k - 1),
          name |-> ArrayNames[Min(alts)]]
    ELSE NoMatch

\* The alternatives of REGEX_ARRAY_START that match at index k.
ArrayAlternatives(line, k) ==
    {n \in 1..Len(ArrayNames) :
        LitAt(line, k, ArrayNames[n]) /\ HeaderTail(line, k + Len(ArrayNames[n]))}

ArrayStartFrom(line, k) == ArrayStartAt(line, k, ArrayAlternatives(line, k))

\* REGEX_ARRAY_START.match(line); indent is group(1), name is group(2).
REGEX_ARRAY_START(line) == ArrayStartFrom(line, SkipSpace(line, 1))

\* Number of hexadecimal digits of an Xcode object ID.
IdLen == 24

\* The comment start expected at s, after the spaces that follow the ID
\* which ends before index k:  \s+ /\*
HeadComment(line, k, s) == IF s > k /\ LitAt(line, s, "/*") THEN s + 2 ELSE 0

\* The ID expected at k:  [A-Fa-f0-9]{24} \s+ /\*
HeadId(line, k) ==
    IF /\ k + IdLen - 1 <= Len(line)
       /\ \A j \in k..(k + IdLen - 1) : IsHex(Char(line, j))
    THEN HeadComment(line, k + IdLen, SkipSpace(line, k + IdLen))
    ELSE 0

\* The head shared by both entry patterns:  ^ \s* [A-Fa-f0-9]{24} \s+ /\*
\* The index after the comment start, 0 when the head does not match.
EntryHead(line) == HeadId(line, SkipSpace(line, 1))

\* The end of REGEX_CHILD_ENTRY expected at r:  \*/ , $
ChildTailAt(line, r) == LitAt(line, r, "*/,") /\ r + 3 = Len(line) + 1

\* What follows the name in REGEX_CHILD_ENTRY, from index k:  \s* \*/ , $
ChildTail(line, k) == ChildTailAt(line, SkipSpace(line, k))

\* The word expected at q, after the spaces that follow index r:  \s+ in \s+
FileIn(line, r, q) ==
    /\ q > r
    /\ LitAt(line, q, "in")
    /\ q + 2 <= Len(line)
    /\ IsSpace(Char(line, q + 2))

\* The end of REGEX_FILE_ENTRY expected at r:  \*/ \s+ in \s+
FileTailAt(line, r) ==
    LitAt(line, r, "*/") /\ FileIn(line, r + 2, SkipSpace(line, r + 2))

\* What follows the name in REGEX_FILE_ENTRY, from index k:  \s* \*/ \s+ in \s+
FileTail(line, k) == FileTailAt(line, SkipSpace(line, k))

EntryTail(line, pattern, k) ==
    IF pattern = "child" THEN ChildTail(line, k) ELSE FileTail(line, k)

\* The name (.+?) that starts at a: it ends at the first place from which
\* the rest of the pattern matches.
NameAt(line, pattern, a) ==
    [matched |-> TRUE, indent |-> "",
     name |-> SubSeq(line, a, Min({e \in a..Len(line) : EntryTail(line, pattern, e + 1)}))]

\* The greedy \s* in front of the name gives back spaces only when nothing
\* else matches: of the possible starts of the name, the last one is taken.
NameAmong(line, pattern, starts) ==
    IF starts = {} THEN NoMatch ELSE NameAt(line, pattern, Max(starts))

\* The starts of a name in p..w from which the pattern can match.
NameStarts(line, pattern, p, w) ==
    {a \in p..w : \E e \in a..Len(line) : EntryTail(line, pattern, e + 1)}

\* The pattern from the index p after the comment start:  \s* (.+?) tail
NameFrom(line, pattern, p) ==
    IF p = 0 THEN NoMatch
    ELSE NameAmong(line, pattern, NameStarts(line, pattern, p, SkipSpace(line, p)))

\* pattern.search(line), pattern being "child" for REGEX_CHILD_ENTRY and
\* "file" for REGEX_FILE_ENTRY; name is group(1).
CapturedName(line, pattern) == NameFrom(line, pattern, EntryHead(line))

\* extract_filename(line, pattern): m.group(1) if m else "".
extract_filename(line, pattern) == CapturedName(line, pattern).name

-----------------------------------------------------------------------------
(* natural_sort_key (lines 127-136).  A name is a sequence of code points. *)
(* A key is a sequence of tokens; the Python tuples (0, int, len) and      *)
(* (1, text) are the records below.                                        *)

\* The code points of the model that \d of _TOKENIZE matches (Unicode
\* category Nd): the ASCII digits.
IsReDigit(c) == c \in 48..57

\* The code points of the model for which str.isdigit() is true: those of
\* \d and U+00B2, U+00B3, U+00B9 (superscript two, three, one).
IsStrDigit(c) == IsReDigit(c) \/ c \in {178, 179, 185}

\* str.lower() on the code points of the model.
Lower(c) == IF c \in 65..90 THEN c + 32 ELSE c

\* token.lower()
lower(token) == [k \in 1..Len(token) |-> Lower(token[k])]

\* Last index of the maximal run of _TOKENIZE that starts at k.
RunEnd(s, k) ==
    LET other == {j \in k..Len(s) : IsReDigit(s[j]) # IsReDigit(s[k])}
    IN  IF other = {} THEN Len(s) ELSE Min(other) - 1

RECURSIVE TokensFrom(_, _)
\* The run k..e and the runs behind it.
TokensBehind(s, k, e) == << SubSeq(s, k, e) >> \o TokensFrom(s, e + 1)

\* _TOKENIZE.findall(s) from index k on.
TokensFrom(s, k) == IF k > Len(s) THEN << >> ELSE TokensBehind(s, k, RunEnd(s, k))

\* _TOKENIZE.findall(s) if s else []
Tokenize(s) == TokensFrom(s, 1)

\* token.isdigit()
isdigit(token) == token # << >> /\ \A k \in 1..Len(token) : IsStrDigit(token[k])

\* int(token) raises ValueError unless every character is a decimal digit.
IntRaises(token) == \E k \in 1..Len(token) : ~IsReDigit(token[k])

\* int(token) for a token of decimal digits.
RECURSIVE int(_)
int(token) ==
    IF token = << >> THEN 0
    ELSE 10 * int(SubSeq(token, 1, Len(token) - 1)) + (token[Len(token)] - 48)

\* One element of the key: (0, int(token), len(token)) or (1, text).
KeyToken(token, ci) ==
    IF isdigit(token)
    THEN [tag |-> 0, num |-> int(token), len |-> Len(token), text |-> << >>]
    ELSE [tag |-> 1, num |-> 0, len |-> 0,
          text |-> IF ci THEN lower(token) ELSE token]

\* The for loop of lines 130-135 over tokens: raised is TRUE when it ends
\* in the ValueError of int, and key is the list it builds otherwise.
KeyOfTokens(tokens, ci) ==
    IF \E k \in 1..Len(tokens) : isdigit(tokens[k]) /\ IntRaises(tokens[k])
    THEN [raised |-> TRUE, key |-> << >>]
    ELSE [raised |-> FALSE,
          key |-> [k \in 1..Len(tokens) |-> KeyToken(tokens[k], ci)]]

\* natural_sort_key(s, case_insensitive)
natural_sort_key(s, ci) == KeyOfTokens(Tokenize(s), ci)

\* s < t for two str (or two lists of integers): by code point, a proper
\* prefix first.
TextLess(s, t) ==
    LET d == {k \in 1..Min({Len(s), Len(t)}) : s[k] # t[k]}
    IN  IF d = {} THEN Len(s) < Len(t) ELSE s[Min(d)] < t[Min(d)]

\* a < b for two key tuples.
TokenLess(a, b) ==
    IF a.tag # b.tag THEN a.tag < b.tag
    ELSE IF a.tag = 0
         THEN a.num < b.num \/ (a.num = b.num /\ a.len < b.len)
         ELSE TextLess(a.text, b.text)

\* The keys differ first at index n (0: nowhere in their common length).
KeyLessAt(k1, k2, n) ==
    IF n = 0 THEN Len(k1) < Len(k2) ELSE TokenLess(k1[n], k2[n])

\* First index at which two lists differ, 0 when one is a prefix of the other.
FirstDifference(k1, k2) ==
    LET d == {k \in 1..Min({Len(k1), Len(k2)}) : k1[k] # k2[k]}
    IN  IF d = {} THEN 0 ELSE Min(d)

\* k1 < k2 for two keys (Python list comparison).
KeyLess(k1, k2) == KeyLessAt(k1, k2, FirstDifference(k1, k2))

-----------------------------------------------------------------------------
(* The entry classifier and the two sort keys (lines 102-103, 144-169).    *)

KNOWN_FILES == { CodePoints("create_hash_table") }

KNOWN_FILES_LC == { lower(f) : f \in KNOWN_FILES }

\* is_directory(filename, case_insensitive)
is_directory(filename, ci) ==
    IF \E k \in 1..Len(filename) : filename[k] = 46
    THEN FALSE
    ELSE (IF ci THEN lower(filename) ELSE filename)
            \notin (IF ci THEN KNOWN_FILES_LC ELSE KNOWN_FILES)

\* A sort key: raised when natural_sort_key raised, else the pair of file,
\* which is False in front of True, and the key k.
SortKey(k, file) == [raised |-> k.raised, file |-> file, key |-> k.key]

\* The tuple (not is_directory(name, ...), natural_sort_key(name, ...)).
ChildKeyOfName(name, ci) ==
    SortKey(natural_sort_key(name, ci), ~is_directory(name, ci))

\* children_sort_key(line, case_insensitive)
children_sort_key(line, ci) ==
    ChildKeyOfName(CodePoints(extract_filename(line, "child")), ci)

\* A faulty variant of files_sort_key: names without a dot go first.
files_sort_key_with_directories(line, ci) ==
    ChildKeyOfName(CodePoints(extract_filename(line, "file")), ci)

\* files_sort_key(line, case_insensitive): the key alone, as a tuple.
files_sort_key(line, ci) ==
    SortKey(natural_sort_key(CodePoints(extract_filename(line, "file")), ci), FALSE)

\* A faulty variant of SortKeyLess: the names alone decide.
SortKeyLessByName(a, b) == KeyLess(a.key, b.key)

\* a < b for two sort keys of the same array: False < True, then the keys.
SortKeyLess(a, b) ==
    IF a.file # b.file THEN b.file ELSE KeyLess(a.key, b.key)

-----------------------------------------------------------------------------
(* uniq (lines 152-159).                                                   *)

\* A faulty variant of uniq_step: an item that was seen is appended again.
uniq_step_appends(st, item) ==
    [seen |-> st.seen \cup {item}, result |-> Append(st.result, item)]

\* The body of the for loop of uniq on one item.
uniq_step(st, item) ==
    IF item \notin st.seen
    THEN [seen |-> st.seen \cup {item}, result |-> Append(st.result, item)]
    ELSE st

RECURSIVE uniq_loop(_, _)
uniq_loop(st, rest) ==
    IF rest = << >> THEN st ELSE uniq_loop(uniq_step(st, Head(rest)), Tail(rest))

\* uniq(items)
uniq(list) == uniq_loop([seen |-> {}, result |-> << >>], list).result

-----------------------------------------------------------------------------
(* sorted(unique_lines, key=...) (lines 249-252, 270-273): a stable sort.  *)

\* The key function of the array kind.
sort_key(line, kind, ci) ==
    IF kind = "files" THEN files_sort_key(line, ci) ELSE children_sort_key(line, ci)

\* x put into acc behind its first n elements.
InsertAt(acc, x, n) == (SubSeq(acc, 1, n) \o << x >>) \o SubSeq(acc, n + 1, Len(acc))

\* A faulty variant of InsertStable: x goes in front of the elements that
\* compare equal to it, so ties come out in reverse.
InsertUnstable(acc, x, keys) ==
    InsertAt(acc, x,
             Cardinality({j \in 1..Len(acc) : SortKeyLess(keys[acc[j]], keys[x])}))

\* x put into the sorted list acc behind every element that is not greater.
InsertStable(acc, x, keys) ==
    InsertAt(acc, x,
             Cardinality({j \in 1..Len(acc) : ~SortKeyLess(keys[x], keys[acc[j]])}))

\* The indices k .. Len(keys) put one by one into the sorted list acc.
RECURSIVE SortIndices(_, _, _)
SortIndices(acc, k, keys) ==
    IF k > Len(keys) THEN acc ELSE SortIndices(InsertStable(acc, k, keys), k + 1, keys)

\* A faulty variant of Permute: the order is taken from its end.
PermuteReversed(list, order) ==
    [k \in 1..Len(list) |-> list[order[Len(list) + 1 - k]]]

\* list in the order of the indices.
Permute(list, order) == [k \in 1..Len(list) |-> list[order[k]]]

\* list sorted by keys, its elements' keys: raised when a key call raised.
SortByKeys(list, keys) ==
    IF \E k \in 1..Len(list) : keys[k].raised
    THEN [raised |-> TRUE, list |-> << >>]
    ELSE [raised |-> FALSE, list |-> Permute(list, SortIndices(<< >>, 1, keys))]

\* sorted(list, key=lambda ln: <kind>_sort_key(ln, case_insensitive))
sorted(list, kind, ci) ==
    SortByKeys(list, [k \in 1..Len(list) |-> sort_key(list[k], kind, ci)])

-----------------------------------------------------------------------------
(* read_array_entries (lines 172-192) and the split and join of the        *)
(* content (lines 228, 292).                                               *)

\* re.match(re.escape(end_marker) + r"\s*$", line)
IsEndMarker(line, end_marker) ==
    /\ LitAt(line, 1, end_marker)
    /\ SkipSpace(line, Len(end_marker) + 1) = Len(line) + 1

\* A faulty variant of EntriesUpTo: without an end line the entries reach
\* to the last line and nothing is raised.
EntriesToLastLine(ls, start_index, ends) ==
    IF ends = {}
    THEN [raised |-> FALSE, entries |-> SubSeq(ls, start_index, Len(ls)),
          end_line |-> "", next_index |-> Len(ls) + 1]
    ELSE [raised |-> FALSE,
          entries |-> SubSeq(ls, start_index, Min(ends) - 1),
          end_line |-> ls[Min(ends)],
          next_index |-> Min(ends) + 1]

\* The while loop of lines 183-188 with ends the indices it would stop at:
\* raised stands for the RuntimeError; otherwise (entries, line, i + 1).
EntriesUpTo(ls, start_index, ends) ==
    IF ends = {}
    THEN [raised |-> TRUE, entries |-> << >>, end_line |-> "", next_index |-> 0]
    ELSE [raised |-> FALSE,
          entries |-> SubSeq(ls, start_index, Min(ends) - 1),
          end_line |-> ls[Min(ends)],
          next_index |-> Min(ends) + 1]

\* read_array_entries(lines, start_index, end_marker, ...)
read_array_entries(ls, start_index, end_marker) ==
    EntriesUpTo(ls, start_index,
                {k \in start_index..Len(ls) : IsEndMarker(ls[k], end_marker)})

\* content.split("\n")
RECURSIVE split(_)
split(text) ==
    LET nl == {k \in 1..Len(text) : Char(text, k) = "\n"}
    IN  IF nl = {} THEN << text >>
        ELSE << SubSeq(text, 1, Min(nl) - 1) >>
             \o split(SubSeq(text, Min(nl) + 1, Len(text)))

\* "\n".join(list)
RECURSIVE join(_)
join(list) ==
    IF list = << >> THEN ""
    ELSE IF Len(list) = 1 THEN list[1]
    ELSE (list[1] \o "\n") \o join(Tail(list))

-----------------------------------------------------------------------------
(* The file system: the target path and the temporary sibling.             *)

NoFile == [exists |-> FALSE, data |-> ""]

File(text) == [exists |-> TRUE, data |-> text]

\* Path.read_text(encoding="utf-8"): text mode with universal newlines, so
\* "\r\n" and a lone "\r" both arrive as "\n".
RECURSIVE read_text(_)
read_text(data) ==
    LET cr == {k \in 1..Len(data) : Char(data, k) = "\r"}
        k == Min(cr)
        after == IF LitAt(data, k + 1, "\n") THEN k + 2 ELSE k + 1
    IN  IF cr = {} THEN data
        ELSE SubSeq(data, 1, k - 1) \o "\n" \o read_text(SubSeq(data, after, Len(data)))

\* What the temporary file can hold while the buffered text is on its way
\* to it: nothing yet, a part, or all of it.
Partial(text) == { SubSeq(text, 1, n) : n \in {0, Len(text) \div 2, Len(text)} }

-----------------------------------------------------------------------------
(* sort_project_file (lines 220-300).                                      *)

BeginMarker == "Begin PBXFrameworksBuildPhase section"

EndMarker == "End PBXFrameworksBuildPhase section"

\* Which branch of the if/elif chain (lines 236, 256, 278, 288) takes line.
Branch(line) ==
    IF REGEX_FILES_ARRAY(line).matched THEN "files"
    ELSE IF REGEX_ARRAY_START(line).matched THEN "named"
    ELSE IF Contains(line, BeginMarker) THEN "frameworks"
    ELSE "other"

\* A faulty variant of frameworks_end: the block ends with its begin line.
frameworks_end_at_begin(ls, k) == k

\* Index of the last line the inner loop of lines 281-286 copies, entered
\* with the begin line at index k.
frameworks_end(ls, k) ==
    LET ends == {j \in (k + 1)..Len(ls) : Contains(ls[j], EndMarker)}
    IN  IF ends = {} THEN Len(ls) ELSE Min(ends)

\* unique_lines of lines 248 and 269.
unique_lines(array_lines) == uniq(array_lines)

\* A faulty variant of sorted_lines: lines that match no entry shape are
\* left out.
sorted_matching_lines(array_lines, kind, ci) ==
    sorted(SelectSeq(unique_lines(array_lines),
                     LAMBDA ln : extract_filename(
                                     ln, IF kind = "files" THEN "file" ELSE "child") # ""),
           kind, ci)

\* sorted_lines of lines 249-252 and 270-273.
sorted_lines(array_lines, kind, ci) == sorted(unique_lines(array_lines), kind, ci)

\* content = project_file.read_text(...); lines = content.split("\n")
ReadFile ==
    /\ pc = "start"
    /\ content' = read_text(target.data)
    /\ lines' = split(read_text(target.data))
    /\ output' = << >>
    /\ i' = 1
    /\ regions' = << >>
    /\ pc' = "scan"
    /\ UNCHANGED << helper_vars, target_stat, tmp_stat, original, failed, target, tmp, case_insensitive, check_only, sorted_content,
                    ret, run, previous, unlink_error, observed >>

\* Lines 248-254 and 269-275 with s the outcome of sorted: the ValueError
\* of a key leaves the call, else the sorted body and the end line go out.
EmitArray(m, kind, r, s) ==
    IF s.raised
    THEN /\ pc' = "raised"
         /\ ret' = "ValueError"
         /\ output' = Append(output, lines[i])
         /\ i' = r.next_index
         /\ UNCHANGED regions
    ELSE /\ output' = (Append(output, lines[i]) \o s.list) \o << r.end_line >>
         /\ i' = r.next_index
         /\ regions' = Append(regions,
                [kind |-> kind, name |-> m.name,
                 first |-> i, last |-> r.next_index - 1,
                 out |-> Len(output) + 1,
                 outlast |-> Len(output) + Len(s.list) + 2])
         /\ UNCHANGED << pc, ret >>

\* Lines 243-246 and 264-267 with r the outcome of read_array_entries: its
\* RuntimeError leaves the call.
ReadArray(m, kind, r) ==
    IF r.raised
    THEN /\ pc' = "raised"
         /\ ret' = "RuntimeError"
         /\ output' = Append(output, lines[i])
         /\ i' = i + 1
         /\ UNCHANGED regions
    ELSE EmitArray(m, kind, r, sorted_lines(r.entries, kind, case_insensitive))

\* The two array branches (lines 236-254 and 256-275) on the header match m.
ScanArray(m, kind) ==
    ReadArray(m, kind, read_array_entries(lines, i + 1, m.indent \o ");"))

ScanFilesArray ==
    /\ pc = "scan"
    /\ i <= Len(lines)
    /\ Branch(lines[i]) = "files"
    /\ ScanArray(REGEX_FILES_ARRAY(lines[i]), "files")
    /\ UNCHANGED << helper_vars, target_stat, tmp_stat, original, failed, target, tmp, case_insensitive, check_only, content, lines,
                    sorted_content, run, previous, unlink_error, observed >>

ScanNamedArray ==
    /\ pc = "scan"
    /\ i <= Len(lines)
    /\ Branch(lines[i]) = "named"
    /\ ScanArray(REGEX_ARRAY_START(lines[i]), "named")
    /\ UNCHANGED << helper_vars, target_stat, tmp_stat, original, failed, target, tmp, case_insensitive, check_only, content, lines,
                    sorted_content, run, previous, unlink_error, observed >>

\* PBXFrameworksBuildPhase: pass through without sorting (lines 278-286).
ScanFrameworks ==
    /\ pc = "scan"
    /\ i <= Len(lines)
    /\ Branch(lines[i]) = "frameworks"
    /\ output' = output \o SubSeq(lines, i, frameworks_end(lines, i))
    /\ i' = frameworks_end(lines, i) + 1
    /\ regions' = Append(regions,
           [kind |-> "verbatim", name |-> "",
            first |-> i, last |-> frameworks_end(lines, i),
            out |-> Len(output) + 1,
            outlast |-> Len(output) + 1 + frameworks_end(lines, i) - i])
    /\ UNCHANGED << helper_vars, target_stat, tmp_stat, original, failed, target, tmp, pc, case_insensitive, check_only, content, lines,
                    sorted_content, ret, run, previous, unlink_error, observed >>

\* The else branch (lines 288-290).
ScanOther ==
    /\ pc = "scan"
    /\ i <= Len(lines)
    /\ Branch(lines[i]) = "other"
    /\ output' = Append(output, lines[i])
    /\ i' = i + 1
    /\ UNCHANGED << helper_vars, target_stat, tmp_stat, original, failed, target, tmp, pc, case_insensitive, check_only, content, lines,
                    sorted_content, ret, run, regions, previous, unlink_error,
                    observed >>

\* A faulty variant of ReturnCheck: the verdict is True whatever was found.
ReturnCheckTrue ==
    /\ pc = "scan"
    /\ i > Len(lines)
    /\ check_only
    /\ sorted_content' = join(output)
    /\ ret' = "True"
    /\ pc' = "returned"
    /\ UNCHANGED << helper_vars, target_stat, tmp_stat, original, failed, target, tmp,
                    case_insensitive, check_only, content, lines, output, i, run,
                    regions, previous, unlink_error, observed >>

\* Lines 292-295: check_only returns the verdict.
ReturnCheck ==
    /\ pc = "scan"
    /\ i > Len(lines)
    /\ check_only
    /\ sorted_content' = join(output)
    /\ ret' = IF content = join(output) THEN "True" ELSE "False"
    /\ pc' = "returned"
    /\ UNCHANGED << helper_vars, target_stat, tmp_stat, original, failed, target, tmp, case_insensitive, check_only, content, lines,
                    output, i, run, regions, previous, unlink_error, observed >>

\* A faulty variant of CallWriteFile: the mode is not looked at.
CallWriteFileAnyMode ==
    /\ pc = "scan"
    /\ i > Len(lines)
    /\ content # join(output)
    /\ sorted_content' = join(output)
    /\ pc' = "mkstemp"
    /\ UNCHANGED << helper_vars, target_stat, tmp_stat, original, failed, target, tmp, case_insensitive,
                    check_only, content, lines, output, i, ret, run, regions,
                    previous, unlink_error, observed >>

\* Lines 297-298: the content differs, write_file is called.
CallWriteFile ==
    /\ pc = "scan"
    /\ i > Len(lines)
    /\ ~check_only
    /\ content # join(output)
    /\ sorted_content' = join(output)
    /\ pc' = "mkstemp"
    /\ UNCHANGED << helper_vars, target_stat, tmp_stat, original, failed, target, tmp, case_insensitive, check_only, content, lines,
                    output, i, ret, run, regions, previous, unlink_error, observed >>

\* Lines 297-300: nothing to change, return True.
ReturnUnchanged ==
    /\ pc = "scan"
    /\ i > Len(lines)
    /\ ~check_only
    /\ content = join(output)
    /\ sorted_content' = join(output)
    /\ ret' = "True"
    /\ pc' = "returned"
    /\ UNCHANGED << helper_vars, target_stat, tmp_stat, original, failed, target, tmp, case_insensitive, check_only, content, lines,
                    output, i, run, regions, previous, unlink_error, observed >>

-----------------------------------------------------------------------------
(* write_file (lines 201-217), one action per call it makes.  Each call    *)
(* either succeeds or raises; a raise inside the try block goes to the     *)
(* except clause.                                                          *)

\* The positions inside write_file.
WriterPcs == {"mkstemp", "fdopen", "write", "flush", "fsync", "close", "replace",
              "except", "written"}

\* A faulty variant of write_path: the text is written over the target.
write_path_in_place == "target"

\* The file the text is written to: the one mkstemp made (line 207).
write_path == "tmp"

\* A faulty variant of os_replace: the source stays where it is.
os_replace_keeps_source(src, dst) == [target |-> src, tmp |-> src]

\* os.replace(tmp_path, target): the files at the two paths afterwards.
os_replace(src, dst) == [target |-> src, tmp |-> NoFile]

\* A faulty variant of cleanup: the temporary file is left where it is.
cleanup_skipped(file, unlinked) == file

\* The except clause (lines 212-216): the temporary file after os.unlink,
\* which either removes it or raises an OSError that is passed over.
cleanup(file, unlinked) == IF unlinked THEN NoFile ELSE file

writer_frame == << case_insensitive, check_only, content, lines, output, i,
                   sorted_content, run, regions, observed, original >>

\* The user the tool runs as.
ProcessUid == "user"

\* What os.stat gives for the file mkstemp makes: mode 0600 (384), owned by
\* the user of the process.
MkstempStat == [mode |-> 384, uid |-> ProcessUid]

\* What os.stat gives for the project file before the tool runs: mode 0644
\* (420), as a checkout makes it, owned by the user of the process.
ProjectStat == [mode |-> 420, uid |-> ProcessUid]

\* fd, tmp_path = tempfile.mkstemp(...): outside the try block.
Mkstemp ==
    /\ pc = "mkstemp"
    /\ \E ok \in BOOLEAN :
          IF ok
          THEN /\ tmp' = File("")
               /\ tmp_stat' = MkstempStat
               /\ pc' = "fdopen"
               /\ ret' = ret
          ELSE /\ tmp' = tmp
               /\ tmp_stat' = tmp_stat
               /\ pc' = "raised"
               /\ ret' = "OSError"
    /\ failed' = IF pc' = "raised" THEN "mkstemp" ELSE failed
    /\ UNCHANGED << helper_vars, target, target_stat, previous, unlink_error,
                    writer_frame >>

\* os.fdopen(fd, "w", encoding="utf-8")
Fdopen ==
    /\ pc = "fdopen"
    /\ \E ok \in BOOLEAN : pc' = IF ok THEN "write" ELSE "except"
    /\ failed' = IF pc' = "except" THEN "fdopen" ELSE failed
    /\ UNCHANGED << helper_vars, target_stat, tmp_stat, target, tmp, ret, previous, unlink_error, writer_frame >>

\* The file at path after part d of the text has reached it.
Written(path, file, d) == IF write_path = path THEN File(d) ELSE file

\* f.write(content): buffered, so any part of the text may be in the file.
Write ==
    /\ pc = "write"
    /\ \E ok \in BOOLEAN, d \in Partial(sorted_content) :
          /\ tmp' = Written("tmp", tmp, d)
          /\ target' = Written("target", target, d)
          /\ pc' = IF ok THEN "flush" ELSE "except"
    /\ failed' = IF pc' = "except" THEN "write" ELSE failed
    /\ UNCHANGED << helper_vars, target_stat, tmp_stat, ret, previous, unlink_error, writer_frame >>

\* f.flush(): on success the whole text is in the file.
Flush ==
    /\ pc = "flush"
    /\ \/ /\ tmp' = Written("tmp", tmp, sorted_content)
          /\ target' = Written("target", target, sorted_content)
          /\ pc' = "fsync"
       \/ /\ UNCHANGED << tmp, target >>
          /\ pc' = "except"
    /\ failed' = IF pc' = "except" THEN "flush" ELSE failed
    /\ UNCHANGED << helper_vars, target_stat, tmp_stat, ret, previous, unlink_error, writer_frame >>

\* os.fsync(f.fileno())
Fsync ==
    /\ pc = "fsync"
    /\ \E ok \in BOOLEAN : pc' = IF ok THEN "close" ELSE "except"
    /\ failed' = IF pc' = "except" THEN "fsync" ELSE failed
    /\ UNCHANGED << helper_vars, target_stat, tmp_stat, target, tmp, ret, previous, unlink_error, writer_frame >>

\* Leaving the with block closes f.
Close ==
    /\ pc = "close"
    /\ \E ok \in BOOLEAN : pc' = IF ok THEN "replace" ELSE "except"
    /\ failed' = IF pc' = "except" THEN "close" ELSE failed
    /\ UNCHANGED << helper_vars, target_stat, tmp_stat, target, tmp, ret, previous, unlink_error, writer_frame >>

\* os.replace(tmp_path, str(target))
Replace ==
    /\ pc = "replace"
    /\ \/ /\ target' = os_replace(tmp, target).target
          /\ tmp' = os_replace(tmp, target).tmp
          /\ target_stat' = os_replace(tmp_stat, target_stat).target
          /\ tmp_stat' = tmp_stat
          /\ pc' = "written"
       \/ /\ UNCHANGED << target, tmp, target_stat, tmp_stat >>
          /\ pc' = "except"
    /\ failed' = IF pc' = "except" THEN "replace" ELSE failed
    /\ UNCHANGED << helper_vars, ret, previous, unlink_error, writer_frame >>

\* except BaseException: try os.unlink(tmp_path), pass over OSError, raise.
Except ==
    /\ pc = "except"
    /\ \E unlinked \in BOOLEAN :
          /\ tmp' = cleanup(tmp, unlinked)
          /\ unlink_error' = ~unlinked
    /\ pc' = "raised"
    /\ ret' = "OSError"
    /\ UNCHANGED << helper_vars, target_stat, tmp_stat, failed, target, previous, writer_frame >>

\* write_file has returned; return True (line 300).
ReturnWritten ==
    /\ pc = "written"
    /\ ret' = "True"
    /\ pc' = "returned"
    /\ UNCHANGED << helper_vars, target_stat, tmp_stat, failed, target, tmp, previous, unlink_error, writer_frame >>

\* Another process opens the target path while write_file runs, and reads
\* the file it opened to the end.
ReaderOpens ==
    /\ pc \in WriterPcs
    /\ ~observed.opened
    /\ observed' = [opened |-> TRUE, exists |-> target.exists, data |-> target.data]
    /\ UNCHANGED << helper_vars, target_stat, tmp_stat, original, failed, target, tmp, pc, case_insensitive, check_only, content, lines,
                    output, i, sorted_content, ret, run, regions, previous, unlink_error >>

\* The tool is run again on the file it has rewritten, with the same flags.
Rerun ==
    /\ pc = "returned"
    /\ run < MaxRuns
    /\ ~check_only
    /\ content # sorted_content
    /\ run' = run + 1
    /\ pc' = "start"
    /\ ret' = "none"
    /\ sorted_content' = ""
    /\ previous' = sorted_content
    /\ original' = target
    /\ observed' = [opened |-> FALSE, exists |-> FALSE, data |-> ""]
    /\ UNCHANGED << helper_vars, target_stat, tmp_stat, failed, target, tmp, case_insensitive, check_only, content, lines,
                    output, i, regions, unlink_error >>

-----------------------------------------------------------------------------
(* The inputs of the model.                                                *)

\* An Xcode object ID: 24 hexadecimal digits.
Id == "A1B2C3D4E5F6789012345678"

\* A line of the child shape and one of the file shape.
ChildLine(name) == (Id \o " /* ") \o (name \o " */,")

FileLine(name) == (Id \o " /* ") \o (name \o " */ in Sources")

FilesHeader == "\tfiles = ("

ChildrenHeader == "\tchildren = ("

Terminator == "\t);"

BeginLine == "/* Begin PBXFrameworksBuildPhase section */"

EndLine == "/* End PBXFrameworksBuildPhase section */"

\* The lines the files of the model are made of.
LinePool == { FilesHeader, ChildrenHeader, Terminator, BeginLine, EndLine,
              ChildLine("b.m"), ChildLine("B.m"), ChildLine("Models"),
              FileLine("B.m"), "" }

\* The sequences over S of length lo .. hi.
Seqs(S, lo, hi) == UNION { [1..n -> S] : n \in lo..hi }

\* main is not running.
IdleMain ==
    /\ args = [check |-> FALSE, case_insensitive |-> FALSE]
    /\ files = << >>
    /\ disk = << >>
    /\ file_index = 1
    /\ all_sorted = TRUE
    /\ exit_status = 0
    /\ mpc = "off"

\* No call of uniq, none of natural_sort_key and none of main is under way.
IdleHelpers ==
    /\ items = << >>
    /\ result = << >>
    /\ upc = "off"
    /\ name_a = << >>
    /\ name_b = << >>
    /\ key_a = [raised |-> FALSE, key |-> << >>]
    /\ key_b = [raised |-> FALSE, key |-> << >>]
    /\ kpc = "off"
    /\ is_dir = FALSE
    /\ IdleMain

\* The engine about to be called on a file that holds text.
EngineStarts(text) ==
    /\ target = File(text)
    /\ tmp = NoFile
    /\ pc = "start"
    /\ content = ""
    /\ lines = << >>
    /\ output = << >>
    /\ i = 1
    /\ sorted_content = ""
    /\ ret = "none"
    /\ run = 1
    /\ regions = << >>
    /\ previous = ""
    /\ unlink_error = FALSE
    /\ observed = [opened |-> FALSE, exists |-> FALSE, data |-> ""]
    /\ original = File(text)
    /\ failed = "none"
    /\ target_stat = ProjectStat
    /\ tmp_stat = MkstempStat

Init ==
    /\ \E ls \in Seqs(LinePool, 1, MaxLines) : EngineStarts(join(ls))
    /\ case_insensitive \in BOOLEAN
    /\ check_only \in BOOLEAN
    /\ IdleHelpers

Next ==
    \/ ReadFile
    \/ ScanFilesArray
    \/ ScanNamedArray
    \/ ScanFrameworks
    \/ ScanOther
    \/ ReturnCheck
    \/ CallWriteFile
    \/ ReturnUnchanged
    \/ Mkstemp
    \/ Fdopen
    \/ Write
    \/ Flush
    \/ Fsync
    \/ Close
    \/ Replace
    \/ Except
    \/ ReturnWritten
    \/ ReaderOpens
    \/ Rerun

Spec == Init /\ [][Next]_vars

-----------------------------------------------------------------------------
(* uniq and natural_sort_key called on their own, as the unit tests of     *)
(* the repository call them.                                               *)

\* No call of sort_project_file is under way.
IdleEngine ==
    /\ target = NoFile
    /\ tmp = NoFile
    /\ pc = "off"
    /\ check_only = FALSE
    /\ content = ""
    /\ lines = << >>
    /\ output = << >>
    /\ i = 1
    /\ sorted_content = ""
    /\ ret = "none"
    /\ run = 1
    /\ regions = << >>
    /\ previous = ""
    /\ unlink_error = FALSE
    /\ observed = [opened |-> FALSE, exists |-> FALSE, data |-> ""]
    /\ original = NoFile
    /\ failed = "none"
    /\ target_stat = ProjectStat
    /\ tmp_stat = MkstempStat

\* The lines handed to uniq: two that differ in trailing whitespace only,
\* and a third.
ItemPool == { "a", "a ", "b" }

InitUniq ==
    /\ IdleEngine
    /\ case_insensitive = FALSE
    /\ items \in Seqs(ItemPool, 0, MaxItems)
    /\ result = << >>
    /\ upc = "call"
    /\ name_a = << >>
    /\ name_b = << >>
    /\ key_a = [raised |-> FALSE, key |-> << >>]
    /\ key_b = [raised |-> FALSE, key |-> << >>]
    /\ kpc = "off"
    /\ is_dir = FALSE
    /\ IdleMain

\* result = uniq(items)
CallUniq ==
    /\ upc = "call"
    /\ result' = uniq(items)
    /\ upc' = "returned"
    /\ UNCHANGED << engine_vars, key_vars, main_vars, items >>

NextUniq == CallUniq

SpecUniq == InitUniq /\ [][NextUniq]_vars

\* The code points the names are made of: 0, 1, A, a and superscript two.
NameChars == { 48, 49, 65, 97, 178 }

InitKey ==
    /\ IdleEngine
    /\ case_insensitive \in BOOLEAN
    /\ items = << >>
    /\ result = << >>
    /\ upc = "off"
    /\ name_a \in Seqs(NameChars, 0, MaxName)
    /\ name_b \in Seqs(NameChars, 0, MaxName)
    /\ key_a = [raised |-> FALSE, key |-> << >>]
    /\ key_b = [raised |-> FALSE, key |-> << >>]
    /\ kpc = "call"
    /\ is_dir = FALSE
    /\ IdleMain

\* key_a = natural_sort_key(name_a, ...); key_b = natural_sort_key(name_b, ...)
CallKey ==
    /\ kpc = "call"
    /\ key_a' = natural_sort_key(name_a, case_insensitive)
    /\ key_b' = natural_sort_key(name_b, case_insensitive)
    /\ kpc' = "returned"
    /\ UNCHANGED << engine_vars, uniq_vars, main_vars, name_a, name_b, is_dir >>

NextKey == CallKey

SpecKey == InitKey /\ [][NextKey]_vars

-----------------------------------------------------------------------------
(* Properties.                                                             *)

\* The invocation has left the scanner without raising.
Scanned == pc \in WriterPcs \cup {"returned"}

\* C1: idempotence.  An invocation on the content a first invocation with
\* the same flags has written finds nothing to change: it raises nothing,
\* does not call write_file, and produces exactly the content it read,
\* which is the content the first invocation produced.
Idempotence ==
    run = 2 =>
        /\ pc \notin WriterPcs \cup {"raised"}
        /\ pc = "scan" => content = previous
        /\ pc = "returned" =>
              /\ sorted_content = previous
              /\ ret = "True"
              /\ target = File(previous)

\* C1: a second invocation has returned on a file in which the first one
\* has rewritten a named array of two lines or more.
IdempotenceWitness ==
    /\ run = 2
    /\ pc = "returned"
    /\ \E k \in 1..Len(regions) :
          /\ regions[k].kind = "named"
          /\ regions[k].last - regions[k].first >= 3

\* The lines b .. e of ls, in this order, are among the lines out[from ..].
RECURSIVE AppearInOrder(_, _, _, _, _)
AppearInOrder(ls, b, e, out, from) ==
    IF b > e THEN TRUE
    ELSE IF from > Len(out) THEN FALSE
    ELSE IF out[from] = ls[b] THEN AppearInOrder(ls, b + 1, e, out, from + 1)
    ELSE AppearInOrder(ls, b, e, out, from + 1)

\* Index of the next line behind index b that contains the end marker, or
\* of the last line when there is none.
NextEnd(ls, b) ==
    IF \E j \in (b + 1)..Len(ls) : Contains(ls[j], EndMarker)
    THEN Min({j \in (b + 1)..Len(ls) : Contains(ls[j], EndMarker)})
    ELSE Len(ls)

IsHeader(line) == Branch(line) \in {"files", "named"}

\* The indent the header line captures.
HeaderIndent(line) ==
    IF Branch(line) = "files" THEN REGEX_FILES_ARRAY(line).indent
    ELSE REGEX_ARRAY_START(line).indent

\* No line behind index k is the indent of the header at k and ");".
Unterminated(ls, k) ==
    \A j \in (k + 1)..Len(ls) : ~IsEndMarker(ls[j], HeaderIndent(ls[k]) \o ");")

\* C3: malformed input.  When the scanner, outside the verbatim block and
\* outside the body of another array, meets a header that no later line
\* terminates, the call raises RuntimeError at once; and whenever the call
\* has raised RuntimeError, in either mode, write_file was not called: the
\* target holds what it held and there is no temporary file.
UnterminatedRaises ==
    /\ [][ ( /\ pc = "scan"
             /\ i <= Len(lines)
             /\ IsHeader(lines[i])
             /\ Unterminated(lines, i) )
           => ( /\ pc' = "raised"
                /\ ret' = "RuntimeError"
                /\ target' = original
                /\ tmp' = NoFile ) ]_vars
    /\ [](ret = "RuntimeError" =>
            /\ pc = "raised"
            /\ target = original
            /\ tmp = NoFile
            /\ failed = "none")

\* C3: the call has raised RuntimeError in normal mode on a header in the
\* last line of the file, an earlier region having been closed.
UnterminatedWitness ==
    /\ pc = "raised"
    /\ ret = "RuntimeError"
    /\ ~check_only
    /\ Len(regions) >= 1
    /\ IsHeader(lines[Len(lines)])

\* C3 as stated, for every header line: a call that has left the scanner
\* without raising has read no header line that lacks its terminator.
EveryUnterminatedRaises ==
    Scanned =>
        \A k \in 1..Len(lines) : IsHeader(lines[k]) => ~Unterminated(lines, k)

\* The calls of write_file behind the creation of the temporary file.
AfterCreation == {"fdopen", "write", "flush", "fsync", "close", "replace"}

ReaderSeesComplete ==
    observed.opened =>
        /\ observed.exists
        /\ \/ observed.data = original.data
           \/ observed.data = sorted_content

\* C5: a reader has opened the path behind os.replace and got the new
\* content, which differs from the original.
ReaderWitness ==
    /\ observed.opened
    /\ observed.data = sorted_content
    /\ observed.data # original.data
    /\ pc = "returned"

\* C6: check-only mode modifies nothing.  A call with check_only never is
\* inside write_file, there is no temporary file, and the target holds
\* what it held before the call.
CheckOnlyModifiesNothing ==
    check_only =>
        /\ pc \notin WriterPcs
        /\ failed = "none"
        /\ tmp = NoFile
        /\ target = original

\* C6: a check-only call has returned False on a file with an array that
\* is not in order.
CheckOnlyWitness ==
    /\ check_only
    /\ pc = "returned"
    /\ ret = "False"
    /\ sorted_content # content
    /\ target = original

\* The body of region r, in the input and in the output.
InputBody(r) == SubSeq(lines, r.first + 1, r.last - 1)

OutputBody(r) == SubSeq(output, r.out + 1, r.outlast - 1)

\* body has no line twice and is in non-decreasing order of the sort key.
InOrder(body, kind) ==
    \A j, k \in 1..Len(body) :
        j < k =>
            /\ body[j] # body[k]
            /\ ~sort_key(body[j], kind, case_insensitive).raised
            /\ ~sort_key(body[k], kind, case_insensitive).raised
            /\ ~SortKeyLess(sort_key(body[k], kind, case_insensitive),
                            sort_key(body[j], kind, case_insensitive))

\* C7: round trip on sorted input.  When the body of every array the
\* scanner has closed is free of duplicates and in non-decreasing order of
\* its sort key, the content produced is the content read, the call returns
\* True and does not call write_file.
RoundTrip ==
    ( /\ Scanned
      /\ \A k \in 1..Len(regions) :
            regions[k].kind # "verbatim" => InOrder(InputBody(regions[k]), regions[k].kind) )
    => /\ pc = "returned"
       /\ ret = "True"
       /\ sorted_content = content
       /\ target = original
       /\ tmp = NoFile

\* C7: a call in normal mode has returned on a file whose named array of
\* two different lines was in order.
RoundTripWitness ==
    /\ pc = "returned"
    /\ ~check_only
    /\ ret = "True"
    /\ Len(regions) = 1
    /\ regions[1].kind = "named"
    /\ Len(InputBody(regions[1])) = 2
    /\ InOrder(InputBody(regions[1]), "named")
    /\ sorted_content = content

\* The set of elements of a list.
Range(list) == { list[k] : k \in 1..Len(list) }

\* Index of the first occurrence of x in list.
FirstIndex(list, x) == Min({ k \in 1..Len(list) : list[k] = x })

\* C8: deduplication.  What uniq returns has no two equal elements, holds
\* exactly the distinct elements of its argument, and has them in the order
\* of their first occurrence; lines that differ in whitespace are different.
UniqDeduplicates ==
    upc = "returned" =>
        /\ \A j, k \in 1..Len(result) : j # k => result[j] # result[k]
        /\ Range(result) = Range(items)
        /\ \A j, k \in 1..Len(result) :
              j < k => FirstIndex(items, result[j]) < FirstIndex(items, result[k])

\* C8: uniq has returned on a list with a repeated line and with two lines
\* that differ in trailing whitespace only, and has kept both of these.
UniqWitness ==
    /\ upc = "returned"
    /\ Len(result) < Len(items)
    /\ {"a", "a "} \subseteq Range(result)

\* The key the rules of natural ordering give a name: a run of decimal
\* digits gives (0, value, number of digits), any other run gives (1, text).
OrderingKey(s, ci) ==
    [k \in 1..Len(Tokenize(s)) |->
        IF IsReDigit(Tokenize(s)[k][1])
        THEN [tag |-> 0, num |-> int(Tokenize(s)[k]),
              len |-> Len(Tokenize(s)[k]), text |-> << >>]
        ELSE [tag |-> 1, num |-> 0, len |-> 0,
              text |-> IF ci THEN lower(Tokenize(s)[k]) ELSE Tokenize(s)[k]]]

\* C9: natural-sort ordering.  natural_sort_key gives every name the key of
\* its maximal digit runs and non-digit runs, and the keys compare as the
\* rules say: 1 before 01 before 001, the empty name first, a proper prefix
\* before the longer name, and A before a when case matters.
NaturalSortOrdering ==
    kpc = "returned" =>
        /\ ~key_a.raised
        /\ ~key_b.raised
        /\ key_a.key = OrderingKey(name_a, case_insensitive)
        /\ key_b.key = OrderingKey(name_b, case_insensitive)
        /\ (name_a = << 49 >> /\ name_b = << 48, 49 >>) => KeyLess(key_a.key, key_b.key)
        /\ (name_a = << 48, 49 >> /\ name_b = << 48, 48, 49 >>) => KeyLess(key_a.key, key_b.key)
        /\ (name_a = << >> /\ name_b # << >>) => KeyLess(key_a.key, key_b.key)
        /\ (name_a = << 97 >> /\ name_b = << 97, 49 >>) => KeyLess(key_a.key, key_b.key)
        /\ (name_a = << 97, 49 >> /\ name_b = << 97, 97 >>) => KeyLess(key_a.key, key_b.key)
        /\ (~case_insensitive /\ name_a = << 65 >> /\ name_b = << 97 >>)
              => KeyLess(key_a.key, key_b.key)

\* The name of a line of a named array is file-like, and its key.
IsFileLike(line) ==
    ~is_directory(CodePoints(extract_filename(line, "child")), case_insensitive)

NameKey(line) ==
    natural_sort_key(CodePoints(extract_filename(line, "child")), case_insensitive).key

\* C10: directory before file.  In the output body of every named array no
\* file-like entry stands in front of a directory-like one, and two entries
\* of the same group stand in non-decreasing order of the keys of their
\* names.
DirectoriesFirst ==
    \A k \in 1..Len(regions) :
        regions[k].kind = "named" =>
            \A a, b \in 1..Len(OutputBody(regions[k])) :
                a < b =>
                    /\ ~( /\ IsFileLike(OutputBody(regions[k])[a])
                          /\ ~IsFileLike(OutputBody(regions[k])[b]) )
                    /\ IsFileLike(OutputBody(regions[k])[a])
                         = IsFileLike(OutputBody(regions[k])[b])
                       => ~KeyLess(NameKey(OutputBody(regions[k])[b]),
                                   NameKey(OutputBody(regions[k])[a]))

\* C10: a call has returned on a named array in which the file b.m stood in
\* front of the directory Models, and Models stands first in the output.
DirectoriesFirstWitness ==
    /\ pc = "returned"
    /\ \E k \in 1..Len(regions) :
          /\ regions[k].kind = "named"
          /\ Len(InputBody(regions[k])) = 2
          /\ extract_filename(InputBody(regions[k])[1], "child") = "b.m"
          /\ extract_filename(InputBody(regions[k])[2], "child") = "Models"
          /\ OutputBody(regions[k])[1] = InputBody(regions[k])[2]
          /\ OutputBody(regions[k])[2] = InputBody(regions[k])[1]

\* C11: rewriting changes the content only.  When a call in normal mode has
\* rewritten the target and returned, the file at the target path has the
\* permission bits and the owner the project file had before the call.
RewriteKeepsStat ==
    (run = 1 /\ pc = "returned" /\ ret = "True" /\ target # original) =>
        target_stat = ProjectStat

\* C12: the verdict.  A call in check-only mode returns True exactly when
\* the content produced equals the content read, and False otherwise; a
\* call in normal mode that returns gives True, also when it has rewritten
\* the file.
Verdict ==
    pc = "returned" =>
        /\ check_only => (ret = "True" <=> sorted_content = content)
        /\ check_only => ret \in {"True", "False"}
        /\ ~check_only => ret = "True"

\* C12: a call in normal mode has rewritten the file with content that
\* differs from what it read, and has returned True.
VerdictWitness ==
    /\ pc = "returned"
    /\ ~check_only
    /\ run = 1
    /\ ret = "True"
    /\ sorted_content # content
    /\ target = File(sorted_content)

\* C12 as stated, for both modes: the value returned is True exactly when
\* the content produced equals the content read.
VerdictEveryMode ==
    pc = "returned" => (ret = "True" <=> sorted_content = content)

-----------------------------------------------------------------------------
(* is_directory called on its own, as tests/test_is_directory.py calls it. *)

\* The names of test_known_files_not_directory and test_known_files_ci_all.
KnownFileNames == { "Makefile", "Podfile", "Cartfile", "Gemfile", "Rakefile",
                    "Fastfile", "Brewfile", "Dangerfile", "LICENSE", "README",
                    "CHANGELOG" }

KnownFileNamesLower == { "makefile", "podfile", "license", "readme", "changelog" }

\* The names of the other tests of is_directory.
OtherNames == { "AppDelegate.m", "Info.plist", "file.swift", "Models",
                "Resources", "Alpha", "create_hash_table", "CREATE_HASH_TABLE",
                "Create_Hash_Table", "file.name.ext", "file.m", "file.h" }

InitDir ==
    /\ IdleEngine
    /\ case_insensitive \in BOOLEAN
    /\ items = << >>
    /\ result = << >>
    /\ upc = "off"
    /\ \E n \in KnownFileNames \cup KnownFileNamesLower \cup OtherNames :
          name_a = CodePoints(n)
    /\ name_b = << >>
    /\ key_a = [raised |-> FALSE, key |-> << >>]
    /\ key_b = [raised |-> FALSE, key |-> << >>]
    /\ kpc = "dir"
    /\ is_dir = FALSE
    /\ IdleMain

\* is_dir = is_directory(name_a, case_insensitive)
CallIsDirectory ==
    /\ kpc = "dir"
    /\ is_dir' = is_directory(name_a, case_insensitive)
    /\ kpc' = "returned"
    /\ UNCHANGED << engine_vars, uniq_vars, main_vars, name_a, name_b, key_a,
                    key_b >>

NextDir == CallIsDirectory

SpecDir == InitDir /\ [][NextDir]_vars

\* C13: known extensionless files are not directories.  is_directory gives
\* False for each of Makefile, Podfile, Cartfile, Gemfile, Rakefile,
\* Fastfile, Brewfile, Dangerfile, LICENSE, README and CHANGELOG when case
\* matters, and for makefile, podfile, license, readme and changelog when it
\* does not.
KnownFilesAreFiles ==
    kpc = "returned" =>
        /\ ( /\ ~case_insensitive
             /\ \E n \in KnownFileNames : name_a = CodePoints(n) ) => ~is_dir
        /\ ( /\ case_insensitive
             /\ \E n \in KnownFileNamesLower : name_a = CodePoints(n) ) => ~is_dir

-----------------------------------------------------------------------------
(* main: the loop over args.files, each file handed to sort_project_file,  *)
(* and the exit status.                                                    *)

\* The lines both project files of the model start with: an empty line, a
\* PBXFrameworksBuildPhase section and a files array of one entry.
MainPrefix ==
    << "", BeginLine, ChildLine("b.m"), EndLine,
       FilesHeader, FileLine("B.m"), Terminator >>

\* A project file whose children array is in order, one whose children
\* array is not, and one whose array has no end.
MainSorted ==
    join(MainPrefix \o
         << ChildrenHeader, ChildLine("Models"), ChildLine("b.m"), Terminator >>)

MainUnsorted ==
    join(MainPrefix \o
         << ChildrenHeader, ChildLine("b.m"), ChildLine("Models"), Terminator >>)

MainUnterminated == join(<< ChildrenHeader, ChildLine("b.m") >>)

\* The arguments: whether the path is named project.pbxproj (or is an
\* .xcodeproj directory, to which main appends that name), and the file the
\* path holds.
ArgPool ==
    { [pbxproj |-> TRUE, file |-> File(MainSorted)],
      [pbxproj |-> TRUE, file |-> File(MainUnsorted)],
      [pbxproj |-> TRUE, file |-> File(MainUnterminated)],
      [pbxproj |-> TRUE, file |-> NoFile],
      [pbxproj |-> FALSE, file |-> File(MainUnsorted)] }

InitMain ==
    /\ IdleEngine
    /\ case_insensitive = FALSE
    /\ items = << >>
    /\ result = << >>
    /\ upc = "off"
    /\ name_a = << >>
    /\ name_b = << >>
    /\ key_a = [raised |-> FALSE, key |-> << >>]
    /\ key_b = [raised |-> FALSE, key |-> << >>]
    /\ kpc = "off"
    /\ is_dir = FALSE
    /\ args \in [check : BOOLEAN, case_insensitive : BOOLEAN]
    /\ files \in Seqs(ArgPool, 1, MaxFiles)
    /\ disk = [k \in DOMAIN files |-> files[k].file]
    /\ file_index = 1
    /\ all_sorted = TRUE
    /\ exit_status = 0
    /\ mpc = "loop"

\* The path is not named project.pbxproj: a warning, and the next file.
MainSkipName ==
    /\ mpc = "loop"
    /\ file_index <= Len(files)
    /\ ~files[file_index].pbxproj
    /\ file_index' = file_index + 1
    /\ UNCHANGED << engine_vars, uniq_vars, key_vars, args, files, disk,
                    all_sorted, exit_status, mpc >>

\* The path holds no file: an error message, and the next file.
MainSkipMissing ==
    /\ mpc = "loop"
    /\ file_index <= Len(files)
    /\ files[file_index].pbxproj
    /\ ~disk[file_index].exists
    /\ file_index' = file_index + 1
    /\ UNCHANGED << engine_vars, uniq_vars, key_vars, args, files, disk,
                    all_sorted, exit_status, mpc >>

\* sort_project_file is called on the file.
MainCall ==
    /\ mpc = "loop"
    /\ file_index <= Len(files)
    /\ files[file_index].pbxproj
    /\ disk[file_index].exists
    /\ target' = disk[file_index]
    /\ original' = disk[file_index]
    /\ tmp' = NoFile
    /\ pc' = "start"
    /\ case_insensitive' = args.case_insensitive
    /\ check_only' = args.check
    /\ content' = ""
    /\ lines' = << >>
    /\ output' = << >>
    /\ i' = 1
    /\ sorted_content' = ""
    /\ ret' = "none"
    /\ regions' = << >>
    /\ unlink_error' = FALSE
    /\ observed' = [opened |-> FALSE, exists |-> FALSE, data |-> ""]
    /\ failed' = "none"
    /\ target_stat' = ProjectStat
    /\ tmp_stat' = MkstempStat
    /\ mpc' = "call"
    /\ UNCHANGED << run, previous, uniq_vars, key_vars, args, files, disk,
                    file_index, all_sorted, exit_status >>

\* A faulty variant of update_all_sorted: the last verdict alone is kept.
last_was_sorted(all, was_sorted) == was_sorted

\* if not was_sorted: all_sorted = False
update_all_sorted(all, was_sorted) == all /\ was_sorted

\* sort_project_file has returned: its verdict is taken, and the next file.
MainReturn ==
    /\ mpc = "call"
    /\ pc = "returned"
    /\ all_sorted' = update_all_sorted(all_sorted, ret = "True")
    /\ disk' = [disk EXCEPT ![file_index] = target]
    /\ file_index' = file_index + 1
    /\ pc' = "off"
    /\ mpc' = "loop"
    /\ UNCHANGED << target, tmp, case_insensitive, check_only, content, lines,
                    output, i, sorted_content, ret, run, regions, previous,
                    unlink_error, observed, original, failed, target_stat,
                    tmp_stat, uniq_vars, key_vars, args, files, exit_status >>

\* sort_project_file has raised: main catches nothing, the interpreter
\* prints the traceback and the process exits with status 1.
MainRaise ==
    /\ mpc = "call"
    /\ pc = "raised"
    /\ disk' = [disk EXCEPT ![file_index] = target]
    /\ exit_status' = 1
    /\ pc' = "off"
    /\ mpc' = "exited"
    /\ UNCHANGED << target, tmp, case_insensitive, check_only, content, lines,
                    output, i, sorted_content, ret, run, regions, previous,
                    unlink_error, observed, original, failed, target_stat,
                    tmp_stat, uniq_vars, key_vars, args, files, file_index,
                    all_sorted >>

\* After the loop: return 1 if check_only and not all_sorted, else return 0.
MainExit ==
    /\ mpc = "loop"
    /\ file_index > Len(files)
    /\ exit_status' = IF args.check /\ ~all_sorted THEN 1 ELSE 0
    /\ mpc' = "exited"
    /\ UNCHANGED << engine_vars, uniq_vars, key_vars, args, files, disk,
                    file_index, all_sorted >>

NextMain ==
    \/ MainSkipName
    \/ MainSkipMissing
    \/ MainCall
    \/ MainReturn
    \/ MainRaise
    \/ MainExit
    \/ ReadFile
    \/ ScanFilesArray
    \/ ScanNamedArray
    \/ ScanFrameworks
    \/ ScanOther
    \/ ReturnCheck
    \/ CallWriteFile
    \/ ReturnUnchanged
    \/ Mkstemp
    \/ Fdopen
    \/ Write
    \/ Flush
    \/ Fsync
    \/ Close
    \/ Replace
    \/ Except
    \/ ReturnWritten
    \/ ReaderOpens

SpecMain == InitMain /\ [][NextMain]_vars

\* The file at position k of args.files is handed to sort_project_file.
Handed(k) == files[k].pbxproj /\ files[k].file.exists

\* C14: the exit status of a check over a list of files.  When main, run
\* with --check on files that sort_project_file can process, has exited,
\* the status is 1 if at least one of the files handed to sort_project_file
\* was not in order and 0 if all of them were, wherever the file out of
\* order stands in the list, and every path holds what it held at first.
CheckExitStatus ==
    (mpc = "exited" /\ args.check) =>
        /\ disk = [k \in DOMAIN files |-> files[k].file]
        /\ (\A k \in DOMAIN files :
               Handed(k) => files[k].file.data # MainUnterminated) =>
              exit_status =
                  IF \E k \in DOMAIN files :
                        Handed(k) /\ files[k].file.data = MainUnsorted
                  THEN 1 ELSE 0

\* A check of two files has exited with status 1: the first file was out of
\* order, the second, seen last, was in order.
CheckExitStatusWitness ==
    /\ mpc = "exited"
    /\ args.check
    /\ Len(files) = 2
    /\ Handed(1) /\ files[1].file.data = MainUnsorted
    /\ Handed(2) /\ files[2].file.data = MainSorted
    /\ exit_status = 1

-----------------------------------------------------------------------------
\* The arrays the scanner has closed.
ArrayRegions == { k \in 1..Len(regions) : regions[k].kind # "verbatim" }

\* How many lines of its input body deduplication takes from region r.
Repeats(r) == Len(InputBody(r)) - Cardinality(Range(InputBody(r)))

\* The sum of Repeats over the regions with index in S.
RECURSIVE SumRepeats(_)
SumRepeats(S) ==
    IF S = {} THEN 0
    ELSE Repeats(regions[Min(S)]) + SumRepeats(S \ {Min(S)})

\* The place in the output of input line j, a line outside the array bodies:
\* its place in the input less the repeated lines of the arrays before it.
OutputPlace(j) == j - SumRepeats({ k \in ArrayRegions : regions[k].last <= j })

\* Input line j lies between the header and the end line of a closed array.
InArrayBody(j) ==
    \E k \in ArrayRegions : regions[k].first < j /\ j < regions[k].last

\* The output lines between the places of the header and of the end line of
\* region r.
EmittedBody(r) ==
    SubSeq(output, OutputPlace(r.first) + 1, OutputPlace(r.last) - 1)

\* The name extract_filename gives a line of an array of this kind.
EntryName(line, kind) ==
    extract_filename(line, IF kind = "files" THEN "file" ELSE "child")

\* The header of an array that is not sorted.
BuildPhasesHeader == "\tbuildPhases = ("

\* C15: no silent data loss.  Once the scan has gone through, every line
\* outside the array bodies is in the output, unchanged, at its place
\* counted without the repeated body lines before it, and nothing else is;
\* the output body of each array holds exactly the distinct lines of its
\* input body, each once; and in it no line that matches no entry shape
\* stands behind an entry with a name.  The header of a buildPhases array
\* opens no array.
NoSilentDataLoss ==
    Scanned =>
        /\ Branch(BuildPhasesHeader) = "other"
        /\ Len(output) = OutputPlace(Len(lines))
        /\ sorted_content = join(output)
        /\ \A j \in 1..Len(lines) :
              ~InArrayBody(j) => output[OutputPlace(j)] = lines[j]
        /\ \A k \in ArrayRegions :
              /\ Range(EmittedBody(regions[k])) = Range(InputBody(regions[k]))
              /\ Len(EmittedBody(regions[k]))
                    = Cardinality(Range(InputBody(regions[k])))
              /\ \A a, b \in 1..Len(EmittedBody(regions[k])) :
                    ( /\ a < b
                      /\ EntryName(EmittedBody(regions[k])[b], regions[k].kind) = "" )
                    => EntryName(EmittedBody(regions[k])[a], regions[k].kind) = ""

\* C15: a call has returned on a file with an array whose body was an entry
\* with a name followed by a line that matches no entry shape; the output
\* has the two the other way round.
NoSilentDataLossWitness ==
    /\ pc = "returned"
    /\ \E k \in ArrayRegions :
          /\ Len(InputBody(regions[k])) = 2
          /\ EntryName(InputBody(regions[k])[1], regions[k].kind) # ""
          /\ EntryName(InputBody(regions[k])[2], regions[k].kind) = ""
          /\ EmittedBody(regions[k])
                = << InputBody(regions[k])[2], InputBody(regions[k])[1] >>

-----------------------------------------------------------------------------
(* sort_project_file called with check_only on a file that holds one files *)
(* array.                                                                  *)

\* A line as Xcode writes the entry of a build phase: the word in stands
\* inside the comment.
XcodeFileLine(name) == (Id \o " /* ") \o (name \o " in Sources */,")

\* The lines of the body: entries of the file shape, with names that differ
\* in case, in a number and in having an extension, and two lines as Xcode
\* writes them.
FileEntryPool ==
    { FileLine("z"), FileLine("a.m"), FileLine("B.m"), FileLine("a9"),
      FileLine("a10"), XcodeFileLine("B.m"), XcodeFileLine("a.m") }

InitFiles ==
    /\ \E body \in Seqs(FileEntryPool, 0, MaxBody) :
          EngineStarts(join((<< FilesHeader >> \o body) \o << Terminator >>))
    /\ case_insensitive \in BOOLEAN
    /\ check_only = TRUE
    /\ IdleHelpers

NextFiles ==
    \/ ReadFile
    \/ ScanFilesArray
    \/ ReturnCheck

SpecFiles == InitFiles /\ [][NextFiles]_vars

\* The key of the name the file shape finds in a line.
FileNameKey(line) ==
    natural_sort_key(CodePoints(extract_filename(line, "file")), case_insensitive).key

-----------------------------------------------------------------------------
(* sort_project_file called with check_only on a file that holds one      *)
(* array, of either kind, with entries whose keys are equal.               *)

\* The identifier of a second object.
OtherId == "FEDCBA987654321001234567"

\* Entries of both shapes with the names File and file, and the name File
\* under a second identifier.  In a named array the lines of the file shape
\* match no entry, in a files array the lines of the child shape match none.
TiePool ==
    { ChildLine("File"), ChildLine("file"),
      (OtherId \o " /* ") \o ("File" \o " */,"),
      FileLine("File"), FileLine("file"),
      (OtherId \o " /* ") \o ("File" \o " */ in Sources") }

InitTies ==
    /\ \E header \in {FilesHeader, ChildrenHeader} :
          \E body \in Seqs(TiePool, 0, MaxBody) :
              EngineStarts(join((<< header >> \o body) \o << Terminator >>))
    /\ case_insensitive \in BOOLEAN
    /\ check_only = TRUE
    /\ IdleHelpers

NextTies ==
    \/ ReadFile
    \/ ScanFilesArray
    \/ ScanNamedArray
    \/ ReturnCheck

SpecTies == InitTies /\ [][NextTies]_vars

\* C17: stable ties.  In the output body of every array, two lines whose
\* sort keys are equal stand in the order of their first occurrences in the
\* input body.
StableTies ==
    \A k \in ArrayRegions :
        \A a, b \in 1..Len(OutputBody(regions[k])) :
            ( /\ a < b
              /\ sort_key(OutputBody(regions[k])[a], regions[k].kind, case_insensitive)
                   = sort_key(OutputBody(regions[k])[b], regions[k].kind, case_insensitive) )
            => FirstIndex(InputBody(regions[k]), OutputBody(regions[k])[a])
                 < FirstIndex(InputBody(regions[k]), OutputBody(regions[k])[b])

\* C17: a call that ignores case has returned on a named array whose body
\* was the entry file, a line that matches no entry, and the entry File:
\* the unmatched line has gone to the front, file still precedes File.
StableTiesWitness ==
    /\ pc = "returned"
    /\ case_insensitive
    /\ Len(regions) = 1
    /\ regions[1].kind = "named"
    /\ InputBody(regions[1])
          = << ChildLine("file"), FileLine("File"), ChildLine("File") >>
    /\ OutputBody(regions[1])
          = << FileLine("File"), ChildLine("file"), ChildLine("File") >>

-----------------------------------------------------------------------------
(* sort_project_file on files in which a closing line is indented          *)
(* differently from the header of its array.                               *)

\* A closing line indented by two tabs, where the headers of the model are
\* indented by one.
DeepTerminator == "\t\t);"

IndentPool == { FilesHeader, ChildrenHeader, Terminator, DeepTerminator,
                BeginLine, ChildLine("b.m"), ChildLine("Models") }

InitIndent ==
    /\ \E ls \in Seqs(IndentPool, 1, MaxLines) : EngineStarts(join(ls))
    /\ case_insensitive \in BOOLEAN
    /\ check_only \in BOOLEAN
    /\ IdleHelpers

SpecIndent == InitIndent /\ [][Next]_vars

\* The line is ");" behind any indent, with nothing but whitespace after it.
IsClosingLine(line) ==
    /\ LitAt(line, SkipSpace(line, 1), ");")
    /\ SkipSpace(line, SkipSpace(line, 1) + 2) = Len(line) + 1

\* C18: an indent mismatch is a structural error.  The scanner closes no
\* array across a closing line whose indent differs from the header: no
\* line of the body of a closed array is a closing line.
IndentMismatchRaises ==
    \A k \in ArrayRegions :
        \A a \in 1..Len(InputBody(regions[k])) :
            ~IsClosingLine(InputBody(regions[k])[a])

-----------------------------------------------------------------------------
\* The position that follows each position of write_file when its step
\* succeeds.
NextStep ==
    [p \in {"mkstemp", "fdopen", "write", "flush", "fsync", "close", "replace"} |->
        CASE p = "mkstemp" -> "fdopen"
          [] p = "fdopen" -> "write"
          [] p = "write" -> "flush"
          [] p = "flush" -> "fsync"
          [] p = "fsync" -> "close"
          [] p = "close" -> "replace"
          [] p = "replace" -> "written"]

\* C19: the order of the steps of write_file.  The steps follow one another
\* as create, open, write, flush, fsync, close, replace, each either going
\* on to the next or leaving through the error path; the target changes in
\* one step only, the successful replace, which finds the whole text in the
\* temporary file, puts it at the target and leaves no temporary file; the
\* target path holds a file at all times; and once write_file has returned
\* no temporary file is left.
WriterStepOrder ==
    /\ [][ /\ (pc \in DOMAIN NextStep /\ pc' # pc) =>
                pc' \in {NextStep[pc], IF pc = "mkstemp" THEN "raised" ELSE "except"}
           /\ (pc' = "replace" /\ pc # "replace") =>
                (pc = "close" /\ tmp = File(sorted_content))
           /\ target' # target =>
                /\ pc = "replace"
                /\ pc' = "written"
                /\ tmp = File(sorted_content)
                /\ target' = File(sorted_content)
                /\ tmp' = NoFile ]_vars
    /\ [](target.exists)
    /\ [](pc \in {"written", "returned"} => tmp = NoFile)

\* C19: write_file has gone through all its steps and the call has
\* returned: the target holds the new text, which is not what it held.
WriterStepOrderWitness ==
    /\ pc = "returned"
    /\ run = 1
    /\ ~check_only
    /\ target # original
    /\ target = File(sorted_content)
    /\ tmp = NoFile

====
